---- MODULE Spec2Model ----
(***************************************************************************)
(* Patient registry (src/index.js): an Express HTTP layer over one SQLite  *)
(* connection opened with node-sqlite3.                                    *)
(*                                                                         *)
(* JavaScript runs each handler and each statement callback to completion  *)
(* on one thread.  The statements themselves are handed to the SQLite      *)
(* driver, which the code never puts in serialized mode (no db.serialize): *)
(* queued statements of different requests, and the ICD inserts of one     *)
(* request, run one at a time but in no guaranteed order.  The model has   *)
(* one action per handler and one per statement callback; a statement's    *)
(* execution and the callback that receives its result are one step.       *)
(*                                                                         *)
(* Text that the code inspects character by character (ICD codes, the      *)
(* icd_code and min_age query parameters) is a sequence of one-character   *)
(* strings.  Text that is only stored and compared (protocol number, name, *)
(* gender) is a string, "" standing for a missing or empty field.          *)
(***************************************************************************)
EXTENDS Integers, Sequences, FiniteSets, Bags, TLC

\* ---------------------------------------------------------------- bounds

\* Patient rows ever inserted (caps the AUTOINCREMENT sequence).
MaxPatients == 2

\* INSERT INTO patients statements queued at the same time.
MaxInFlight == 2

\* Largest value of the store's clock, in whole seconds.
MaxClock == 1

\* ------------------------------------------------------ values and text

\* A calendar date 'YYYY-MM-DD'.  NoDate is the missing / empty / NULL date.
Date(y, m, d) == [y |-> y, m |-> m, d |-> d]
NoDate == Date(0, 0, 0)

\* new Date() in calculateAge: the day on which the requests are served.
Today == Date(2026, 11, 3)

\* icd.code when the entry has no code property (bound as SQL NULL).
Undefined == << "<undefined>" >>

\* NULL as the value of GROUP_CONCAT over no rows.
Null == << "<null>" >>

\* JavaScript truthiness of a text value: !x is true for undefined, null, ''.
Truthy(s) == s # Undefined /\ s # Null /\ s # << >>

Range(s) == {s[i] : i \in DOMAIN s}

\* The rows a forEach over a list issues, as a multiset.
SeqToBag(s) == [x \in Range(s) |-> Cardinality({i \in DOMAIN s : s[i] = x})]

\* Every order in which the store may hand back the rows of a multiset.
Orderings(b) ==
  LET n == BagCardinality(b)
  IN  {s \in [1..n -> BagToSet(b)] : SeqToBag(s) = b}

\* Every order of the elements of a set.
RowOrders(S) ==
  {s \in [1..Cardinality(S) -> S] : Range(s) = S}

\* String.prototype.trim, white space being " ".
RECURSIVE TrimStart(_)
TrimStart(s) == IF s # << >> /\ Head(s) = " " THEN TrimStart(Tail(s)) ELSE s

RECURSIVE TrimEnd(_)
TrimEnd(s) ==
  IF s # << >> /\ s[Len(s)] = " " THEN TrimEnd(SubSeq(s, 1, Len(s) - 1)) ELSE s

Trim(s) == TrimEnd(TrimStart(s))

\* GROUP_CONCAT(x): NULL over no rows, else the values joined by ','.
RECURSIVE Concat(_)
Concat(codes) ==
  IF Len(codes) = 1 THEN codes[1]
  ELSE codes[1] \o << "," >> \o Concat(Tail(codes))

GroupConcat(codes) == IF codes = << >> THEN Null ELSE Concat(codes)

\* String.prototype.split(',').
RECURSIVE Split(_)
Split(s) ==
  LET commas == {i \in DOMAIN s : s[i] = ","}
  IN  IF commas = {} THEN << s >>
      ELSE LET i == CHOOSE k \in commas : \A j \in commas : k <= j
           IN  << SubSeq(s, 1, i - 1) >> \o Split(SubSeq(s, i + 1, Len(s)))

\* patient.icd_codes ? patient.icd_codes.split(',') : []
SplitCodes(text) == IF Truthy(text) THEN Split(text) ELSE << >>

\* ASCII case folding as SQLite's LIKE applies it.
LowerCase == << "a", "b", "c", "d", "e", "f", "g", "h", "i", "j", "k", "l", "m",
                "n", "o", "p", "q", "r", "s", "t", "u", "v", "w", "x", "y", "z" >>
UpperCase == << "A", "B", "C", "D", "E", "F", "G", "H", "I", "J", "K", "L", "M",
                "N", "O", "P", "Q", "R", "S", "T", "U", "V", "W", "X", "Y", "Z" >>

Fold(c) ==
  IF \E i \in DOMAIN LowerCase : LowerCase[i] = c
  THEN UpperCase[CHOOSE i \in DOMAIN LowerCase : LowerCase[i] = c]
  ELSE c

\* SQLite's LIKE: '%' matches any run of characters, '_' any one character,
\* letters match regardless of ASCII case.
RECURSIVE Like(_, _)
Like(pattern, text) ==
  IF pattern = << >> THEN text = << >>
  ELSE IF Head(pattern) = "%"
       THEN Like(Tail(pattern), text)
            \/ (text # << >> /\ Like(pattern, Tail(text)))
       ELSE /\ text # << >>
            /\ (Head(pattern) = "_" \/ Fold(Head(pattern)) = Fold(Head(text)))
            /\ Like(Tail(pattern), Tail(text))

\* parseInt(s): the decimal digits s starts with; NaN when there is none.
Digits == << "0", "1", "2", "3", "4", "5", "6", "7", "8", "9" >>
IsDigit(c) == \E i \in DOMAIN Digits : Digits[i] = c
DigitValue(c) == (CHOOSE i \in DOMAIN Digits : Digits[i] = c) - 1

RECURSIVE ParseDigits(_, _)
ParseDigits(s, acc) ==
  IF s # << >> /\ IsDigit(Head(s))
  THEN ParseDigits(Tail(s), 10 * acc + DigitValue(Head(s)))
  ELSE acc

ParseIntIsNaN(s) == LET t == TrimStart(s) IN t = << >> \/ ~IsDigit(Head(t))
ParseInt(s) == ParseDigits(TrimStart(s), 0)

\* --------------------------------------------------- derivation functions

calculateAge(dateOfBirth) ==
  LET age == Today.y - dateOfBirth.y
      monthDiff == Today.m - dateOfBirth.m
  IN  IF monthDiff < 0 \/ (monthDiff = 0 /\ Today.d < dateOfBirth.d)
      THEN age - 1
      ELSE age

\* new Date('YYYY-MM-DD').getTime() / 86400000: days since 1970-01-01.
EpochDay(date) ==
  LET y == IF date.m <= 2 THEN date.y - 1 ELSE date.y
      era == y \div 400
      yoe == y - era * 400
      mp == IF date.m > 2 THEN date.m - 3 ELSE date.m + 9
      doy == (153 * mp + 2) \div 5 + date.d - 1
      doe == yoe * 365 + yoe \div 4 - yoe \div 100 + doy
  IN  era * 146097 + doe - 719468

MsPerDay == 1000 * 60 * 60 * 24

\* Math.ceil(a / b) for b > 0.
Ceil(a, b) == -((-a) \div b)

calculateLengthOfStay(admissionDate, dischargeDate) ==
  LET timeDiff == (EpochDay(dischargeDate) - EpochDay(admissionDate)) * MsPerDay
  IN  Ceil(timeDiff, MsPerDay) + 1

\* ------------------------------------------------------------------ state

VARIABLES
  patients,           \* table patients: a set of rows, keyed by id
  patient_icd_codes,  \* table patient_icd_codes: a multiset of rows
  sqlite_sequence,    \* AUTOINCREMENT: the largest patients.id ever assigned
  foreign_keys,       \* the connection's PRAGMA foreign_keys
  pendingPatients,    \* queued INSERT INTO patients statements (request bodies)
  pendingIcdCodes,    \* queued INSERT INTO patient_icd_codes statements (rows)
  stats,              \* the statistics request in progress
  now,                \* CURRENT_TIMESTAMP, in whole seconds
  resp,               \* the response sent last
  submitted           \* patientId -> body of the request answered with success,
                      \* for the patients not deleted since

vars == << patients, patient_icd_codes, sqlite_sequence, foreign_keys,
           pendingPatients, pendingIcdCodes, stats, now, resp, submitted >>

store == << patients, patient_icd_codes, sqlite_sequence, foreign_keys >>

Response(op, status, body) == [op |-> op, status |-> status, body |-> body]

\* The error messages of the handlers.
MissingFields == "Te gjitha fushat e nevojshme duhet te plotesohen"
MissingIcd == "Duhet te shenohet te pakten nje kod ICD-10"
ProtocolExists == "Numri i protokollit ekziston tashme"
PatientNotFound == "Pacienti nuk u gjet"
PatientDeleted == "Pacienti u fshi me sukses"

\* new sqlite3.Database(...) and initializeDatabase: both tables are
\* created empty.  SQLite enforces foreign keys (and so ON DELETE CASCADE)
\* only on a connection that has run PRAGMA foreign_keys = ON; the setting
\* is off on every new connection and the program never issues the pragma.
Init ==
  /\ patients = {}
  /\ patient_icd_codes = EmptyBag
  /\ sqlite_sequence = 0
  /\ foreign_keys = FALSE
  /\ pendingPatients = EmptyBag
  /\ pendingIcdCodes = EmptyBag
  /\ stats = [pc |-> "idle", total |-> 0, byGender |-> {}]
  /\ now = 0
  /\ resp = Response("none", 0, << >>)
  /\ submitted = << >>

\* -------------------------------------------------------- register patient

\* icd_codes.some(icd => icd.code && icd.code.trim())
SomeCode(items) ==
  \E i \in DOMAIN items : Truthy(items[i].code) /\ Truthy(Trim(items[i].code))

\* Validate with the codes not trimmed: a code of spaces counts as a code.
ValidateNoTrim(body) ==
  IF \/ body.protocol_number = ""
     \/ body.name = ""
     \/ body.gender = ""
     \/ body.date_of_birth = NoDate
     \/ body.admission_date = NoDate
  THEN MissingFields
  ELSE IF \/ body.icd_codes.kind # "array"
          \/ Len(body.icd_codes.items) = 0
          \/ ~\E i \in DOMAIN body.icd_codes.items :
                Truthy(body.icd_codes.items[i].code)
       THEN MissingIcd
       ELSE "ok"

\* The checks of the request body (lines 80 and 85): "ok" or the error.
Validate(body) ==
  IF \/ body.protocol_number = ""
     \/ body.name = ""
     \/ body.gender = ""
     \/ body.date_of_birth = NoDate
     \/ body.admission_date = NoDate
  THEN MissingFields
  ELSE IF \/ body.icd_codes.kind = "undefined"
          \/ body.icd_codes.kind # "array"
          \/ Len(body.icd_codes.items) = 0
          \/ ~SomeCode(body.icd_codes.items)
       THEN MissingIcd
       ELSE "ok"

\* POST /api/patients, up to the db.run that queues the patient insert.
Register(body) ==
  /\ sqlite_sequence + BagCardinality(pendingPatients) < MaxPatients
  /\ BagCardinality(pendingPatients) < MaxInFlight
  /\ IF Validate(body) # "ok"
     THEN /\ resp' = Response("register", 400, Validate(body))
          /\ UNCHANGED pendingPatients
     ELSE /\ pendingPatients' = pendingPatients (+) SetToBag({body})
          /\ UNCHANGED resp
  /\ UNCHANGED << store, pendingIcdCodes, stats, now, submitted >>

\* The row INSERT INTO patients stores for a request body.
PatientRow(id, body) ==
  [id |-> id,
   protocol_number |-> body.protocol_number,
   name |-> body.name,
   gender |-> body.gender,
   date_of_birth |-> body.date_of_birth,
   admission_date |-> body.admission_date,
   discharge_date |-> body.discharge_date,
   created_at |-> now]

\* The parameters of one ICD insert: [patientId, icd.code, icd.description || ''],
\* a missing description being "" already.
IcdRow(patientId, icd) ==
  [patient_id |-> patientId, icd_code |-> icd.code, description |-> icd.description]

\* The ICD inserts the callback queues: one per entry of icd_codes.
IcdInserts(patientId, items) ==
  SeqToBag([i \in DOMAIN items |-> IcdRow(patientId, items[i])])

\* InsertPatient on a table whose protocol_number is not UNIQUE.
InsertPatientNotUnique(body) ==
  /\ BagIn(body, pendingPatients)
  /\ pendingPatients' = pendingPatients (-) SetToBag({body})
  /\ LET patientId == sqlite_sequence + 1
     IN  /\ patients' = patients \cup {PatientRow(patientId, body)}
         /\ sqlite_sequence' = patientId
         /\ pendingIcdCodes' =
              pendingIcdCodes (+) IcdInserts(patientId, body.icd_codes.items)
         /\ resp' = Response("register", 200, patientId)
         /\ submitted' = [i \in DOMAIN submitted \cup {patientId} |->
                           IF i = patientId THEN body ELSE submitted[i]]
         /\ UNCHANGED << patient_icd_codes, foreign_keys >>
  /\ UNCHANGED << stats, now >>

\* The patient insert runs and its callback (lines 93-117) answers.
InsertPatient(body) ==
  /\ BagIn(body, pendingPatients)
  /\ pendingPatients' = pendingPatients (-) SetToBag({body})
  /\ IF \E p \in patients : p.protocol_number = body.protocol_number
     THEN /\ resp' = Response("register", 400, ProtocolExists)
          /\ UNCHANGED << store, pendingIcdCodes, submitted >>
     ELSE LET patientId == sqlite_sequence + 1
          IN  /\ patients' = patients \cup {PatientRow(patientId, body)}
              /\ sqlite_sequence' = patientId
              /\ pendingIcdCodes' =
                   pendingIcdCodes (+) IcdInserts(patientId, body.icd_codes.items)
              /\ resp' = Response("register", 200, patientId)
              /\ submitted' = [i \in DOMAIN submitted \cup {patientId} |->
                                IF i = patientId THEN body ELSE submitted[i]]
              /\ UNCHANGED << patient_icd_codes, foreign_keys >>
  /\ UNCHANGED << stats, now >>

\* One queued ICD insert runs; it has no callback.  icd_code is NOT NULL, so
\* an entry without a code inserts nothing; with foreign keys enforced an
\* insert for a patient that is gone inserts nothing either.
InsertIcdCode(row) ==
  /\ BagIn(row, pendingIcdCodes)
  /\ pendingIcdCodes' = pendingIcdCodes (-) SetToBag({row})
  /\ IF \/ row.icd_code = Undefined
        \/ (foreign_keys /\ ~\E p \in patients : p.id = row.patient_id)
     THEN UNCHANGED patient_icd_codes
     ELSE patient_icd_codes' = patient_icd_codes (+) SetToBag({row})
  /\ UNCHANGED << patients, sqlite_sequence, foreign_keys, pendingPatients,
                  stats, now, resp, submitted >>

\* ---------------------------------------------------------- delete patient

\* Delete without the test of this.changes: it always answers success.
DeleteNoChangesTest(protocolNumber) ==
  LET gone == {p \in patients : p.protocol_number = protocolNumber}
      goneIds == {p.id : p \in gone}
      cascaded == {r \in BagToSet(patient_icd_codes) : r.patient_id \in goneIds}
  IN  /\ patients' = patients \ gone
      /\ patient_icd_codes' =
           IF foreign_keys
           THEN [r \in BagToSet(patient_icd_codes) \ cascaded |->
                   patient_icd_codes[r]]
           ELSE patient_icd_codes
      /\ resp' = Response("delete", 200, PatientDeleted)
      /\ submitted' = [i \in DOMAIN submitted \ goneIds |-> submitted[i]]
      /\ UNCHANGED << sqlite_sequence, foreign_keys, pendingPatients,
                      pendingIcdCodes, stats, now >>

\* DELETE /api/patients/:protocol_number: the statement and its callback.
Delete(protocolNumber) ==
  LET gone == {p \in patients : p.protocol_number = protocolNumber}
      goneIds == {p.id : p \in gone}
      cascaded == {r \in BagToSet(patient_icd_codes) : r.patient_id \in goneIds}
  IN  /\ patients' = patients \ gone
      /\ patient_icd_codes' =
           IF foreign_keys
           THEN [r \in BagToSet(patient_icd_codes) \ cascaded |->
                   patient_icd_codes[r]]
           ELSE patient_icd_codes
      /\ resp' = IF Cardinality(gone) = 0
                 THEN Response("delete", 404, PatientNotFound)
                 ELSE Response("delete", 200, PatientDeleted)
      /\ submitted' = [i \in DOMAIN submitted \ goneIds |-> submitted[i]]
      /\ UNCHANGED << sqlite_sequence, foreign_keys, pendingPatients,
                      pendingIcdCodes, stats, now >>

\* ----------------------------------------------------------- list patients

RECURSIVE Sum(_, _)
Sum(f, S) ==
  IF S = {} THEN 0
  ELSE LET x == CHOOSE x \in S : TRUE IN f[x] + Sum(f, S \ {x})

\* LEFT JOIN patient_icd_codes ON p.id = pic.patient_id: the icd_code values
\* joined to one patient, as a multiset.
JoinedCodes(patientId) ==
  LET rows == {r \in BagToSet(patient_icd_codes) : r.patient_id = patientId}
      codes == {r.icd_code : r \in rows}
  IN  [c \in codes |->
         Sum(patient_icd_codes, {r \in rows : r.icd_code = c})]

\* The object rows.map builds from one result row (lines 135-142, 179-186).
WithDetails(patient, icd_codes) ==
  [id |-> patient.id,
   protocol_number |-> patient.protocol_number,
   name |-> patient.name,
   gender |-> patient.gender,
   date_of_birth |-> patient.date_of_birth,
   admission_date |-> patient.admission_date,
   discharge_date |-> patient.discharge_date,
   created_at |-> patient.created_at,
   age |-> calculateAge(patient.date_of_birth),
   \* a number, or null: << n >> or << >>
   length_of_stay |->
     IF patient.discharge_date # NoDate
     THEN << calculateLengthOfStay(patient.admission_date, patient.discharge_date) >>
     ELSE << >>,
   icd_codes |-> SplitCodes(icd_codes)]

\* GROUP_CONCAT(DISTINCT pic.icd_code): every joined code once.
DistinctJoinedCodes(patientId) == SetToBag(BagToSet(JoinedCodes(patientId)))

\* GROUP BY p.id with GROUP_CONCAT, plain or DISTINCT, over the joined codes:
\* for every patient one order in which the aggregate may visit the codes.
Aggregations(rows, distinct) ==
  LET ids == {p.id : p \in rows}
      Codes(id) == IF distinct THEN DistinctJoinedCodes(id) ELSE JoinedCodes(id)
      all == UNION {Orderings(Codes(id)) : id \in ids}
  IN  {f \in [ids -> all] : \A id \in ids : f[id] \in Orderings(Codes(id))}

\* ORDER BY p.created_at DESC: rows with equal created_at come in any order.
OrderedByCreatedAtDesc(order) ==
  \A i, j \in DOMAIN order : i < j => order[i].created_at >= order[j].created_at

\* The result rows of the list query, mapped (lines 122-142): every array
\* the handler may send.
ListResults ==
  {[i \in DOMAIN order |-> WithDetails(order[i], GroupConcat(codes[order[i].id]))] :
     order \in {o \in RowOrders(patients) : OrderedByCreatedAtDesc(o)},
     codes \in Aggregations(patients, FALSE)}

\* GET /api/patients: the query and its callback.
List ==
  \E body \in ListResults :
    /\ resp' = Response("list", 200, body)
    /\ UNCHANGED << store, pendingPatients, pendingIcdCodes, stats, now, submitted >>

\* --------------------------------------------------------- search patients

\* The WHERE clause the handler builds (lines 156-170).
Where(p, icd_code, gender) ==
  /\ Truthy(icd_code) =>
       p.id \in {r.patient_id : r \in
                   {q \in BagToSet(patient_icd_codes) :
                      Like(<< "%" >> \o icd_code \o << "%" >>, q.icd_code)}}
  /\ gender # "" => p.gender = gender

\* AgeFilter with > for >=.
AgeFilterStrict(p, min_age) ==
  Truthy(min_age) => (~ParseIntIsNaN(min_age) /\ p.age > ParseInt(min_age))

\* if (min_age) ... filter(p => p.age >= parseInt(min_age))
AgeFilter(p, min_age) ==
  Truthy(min_age) => (~ParseIntIsNaN(min_age) /\ p.age >= ParseInt(min_age))

\* The result rows of the search query, mapped and filtered (lines 152-191):
\* every array the handler may send.  The query has no ORDER BY: the rows
\* come in any order.
SearchResults(icd_code, min_age, gender) ==
  LET rows == {p \in patients : Where(p, icd_code, gender)}
  IN  {SelectSeq([i \in DOMAIN order |->
                    WithDetails(order[i], GroupConcat(codes[order[i].id]))],
                 LAMBDA p : AgeFilter(p, min_age)) :
         order \in RowOrders(rows),
         codes \in Aggregations(rows, TRUE)}

\* res.json({count, patients}) (lines 193-196): every body the handler may
\* send for a query in the current state of the store.
SearchResponses(icd_code, min_age, gender) ==
  {[count |-> Len(patientsWithDetails), patients |-> patientsWithDetails] :
     patientsWithDetails \in SearchResults(icd_code, min_age, gender)}

\* GET /api/patients/search: the query and its callback.
Search(icd_code, min_age, gender) ==
  \E body \in SearchResponses(icd_code, min_age, gender) :
    /\ resp' = Response("search", 200, body)
    /\ UNCHANGED << store, pendingPatients, pendingIcdCodes, stats, now, submitted >>

\* -------------------------------------------------------------- statistics

\* GET /api/statistics: the handler queues the first read.
Statistics ==
  /\ stats.pc = "idle"
  /\ stats' = [pc |-> "total", total |-> 0, byGender |-> {}]
  /\ UNCHANGED << store, pendingPatients, pendingIcdCodes, now, resp, submitted >>

\* SELECT COUNT(*) as total FROM patients, and its callback.
StatisticsTotal ==
  /\ stats.pc = "total"
  /\ stats' = [stats EXCEPT !.pc = "byGender", !.total = Cardinality(patients)]
  /\ UNCHANGED << store, pendingPatients, pendingIcdCodes, now, resp, submitted >>

\* SELECT gender, COUNT(*) as count FROM patients GROUP BY gender, and its
\* callback.  The rows are kept as a set: their order is not fixed.
StatisticsByGender ==
  /\ stats.pc = "byGender"
  /\ stats' = [stats EXCEPT
                 !.pc = "ageGroups",
                 !.byGender =
                   {[gender |-> g,
                     count |-> Cardinality({p \in patients : p.gender = g})] :
                      g \in {p.gender : p \in patients}}]
  /\ UNCHANGED << store, pendingPatients, pendingIcdCodes, now, resp, submitted >>

\* The loop over the rows of SELECT * FROM patients (lines 214-221).
AgeGroups(rows) ==
  [group \in {"0-18", "19-64", "65+"} |->
     Cardinality({p \in rows :
        LET age == calculateAge(p.date_of_birth)
        IN  IF age <= 18 THEN group = "0-18"
            ELSE IF age <= 64 THEN group = "19-64"
            ELSE group = "65+"})]

\* SELECT * FROM patients, and its callback, which answers.
StatisticsAgeGroups ==
  /\ stats.pc = "ageGroups"
  /\ resp' = Response("statistics", 200,
                [total |-> stats.total,
                 byGender |-> stats.byGender,
                 ageGroups |-> AgeGroups(patients)])
  /\ stats' = [pc |-> "idle", total |-> 0, byGender |-> {}]
  /\ UNCHANGED << store, pendingPatients, pendingIcdCodes, now, submitted >>

\* ------------------------------------------------------------------- clock

\* A second passes on the store's clock.
Tick ==
  /\ now < MaxClock
  /\ now' = now + 1
  /\ UNCHANGED << store, pendingPatients, pendingIcdCodes, stats, resp, submitted >>

\* ------------------------------------------------------------------ inputs

ProtocolNumbers == {"P-001", "P-002"}

J18 == << "J", "1", "8" >>
E11 == << "E", "1", "1" >>
Blank == << " ", " " >>
\* two codes typed into one field
J18E11 == << "J", "1", "8", ",", "E", "1", "1" >>

Icd(code) == [code |-> code, description |-> ""]
Array(items) == [kind |-> "array", items |-> items]

\* icd_codes values that do not pass the check of line 85: absent, not an
\* array, empty, without a code
NoIcdLists ==
  {[kind |-> "undefined", items |-> << >>],
   [kind |-> "string", items |-> << >>],
   Array(<< >>),
   Array(<< Icd(Blank), Icd(<< >>) >>),
   Array(<< Icd(Undefined) >>)}

\* gender, date of birth, admission and discharge of the patients registered
Profile(gender, date_of_birth, admission_date, discharge_date) ==
  [gender |-> gender, date_of_birth |-> date_of_birth,
   admission_date |-> admission_date, discharge_date |-> discharge_date]

Male66 == Profile("male", Date(1960, 5, 1), Date(2024, 6, 1), NoDate)
Male65 == Profile("male", Date(1961, 11, 3), Date(2024, 6, 1), NoDate)
Female64 == Profile("female", Date(1961, 11, 4), Date(2024, 1, 1), Date(2024, 1, 3))
\* a date of birth typed a month ahead of today: the computed age is -1
MaleUnborn == Profile("male", Date(2026, 12, 1), Date(2024, 6, 1), NoDate)
Female18 == Profile("female", Date(2008, 11, 3), Date(2024, 1, 1), Date(2024, 1, 3))

Body(protocol_number, name, profile, icd_codes) ==
  [protocol_number |-> protocol_number,
   name |-> name,
   gender |-> profile.gender,
   date_of_birth |-> profile.date_of_birth,
   admission_date |-> profile.admission_date,
   discharge_date |-> profile.discharge_date,
   icd_codes |-> icd_codes]

\* Request bodies that pass validation.
ValidBodies(profiles, icdLists) ==
  {Body(pn, "Agim Krasniqi", profile, icd) :
     pn \in ProtocolNumbers, profile \in profiles, icd \in icdLists}

\* Request bodies with a required field missing, or without an ICD code.
InvalidBodies ==
  LET oneCode == Array(<< Icd(J18) >>)
  IN  {Body("", "Agim Krasniqi", Male66, oneCode),
       Body("P-001", "", Male66, oneCode),
       Body("P-001", "Agim Krasniqi", [Male66 EXCEPT !.gender = ""], oneCode),
       Body("P-001", "Agim Krasniqi", [Male66 EXCEPT !.date_of_birth = NoDate], oneCode),
       Body("P-001", "Agim Krasniqi", [Male66 EXCEPT !.admission_date = NoDate], oneCode),
       Body("P-002", "", Male66, Array(<< >>))}
      \cup {Body("P-001", "Agim Krasniqi", Male66, icd) : icd \in NoIcdLists}

\* The requests of the registry specification.
Bodies ==
  ValidBodies({Male66}, {Array(<< Icd(J18) >>)})
  \cup {Body("P-001", "Agim Krasniqi", Male66, Array(<< Icd(J18E11) >>)),
        Body("P-002", "Agim Krasniqi", Female64, Array(<< Icd(E11), Icd(Undefined) >>))}
  \cup InvalidBodies

\* The requests of the search specification.
SearchBodies ==
  {Body("P-001", "Agim Krasniqi", Male65, Array(<< Icd(J18), Icd(J18) >>)),
   Body("P-002", "Agim Krasniqi", MaleUnborn, Array(<< Icd(J18), Icd(J18) >>)),
   Body("P-002", "Agim Krasniqi", Female64, Array(<< Icd(J18), Icd(E11) >>))}

\* Query parameters of the search; << >> and "" are an absent or empty one.
IcdFilters == {<< >>, << "J", "1" >>, << "e" >>, << "_", "%", "8" >>}
MinAges == {<< >>, << "0" >>, << "6", "5" >>}
GenderFilters == {"", "male", "female"}

\* The requests of the statistics specification.
StatisticsBodies ==
  ValidBodies({Male66, Female64, Female18}, {Array(<< Icd(J18) >>)})

\* ---------------------------------------------------------- specifications

\* Register, delete and list, with the store's clock.
Next ==
  \/ \E body \in Bodies : Register(body)
  \/ \E body \in BagToSet(pendingPatients) : InsertPatient(body)
  \/ \E row \in BagToSet(pendingIcdCodes) : InsertIcdCode(row)
  \/ \E protocolNumber \in ProtocolNumbers : Delete(protocolNumber)
  \/ List
  \/ Tick

Spec == Init /\ [][Next]_vars

\* Register and search.  The search query reads the ICD rows of the patients
\* in the store (lines 153-163) and no id is given twice (AUTOINCREMENT,
\* line 28): the rows a delete leaves behind belong to no patient it reads.
NextSearch ==
  \/ \E body \in SearchBodies : Register(body)
  \/ \E body \in BagToSet(pendingPatients) : InsertPatient(body)
  \/ \E row \in BagToSet(pendingIcdCodes) : InsertIcdCode(row)
  \/ \E icd_code \in IcdFilters, min_age \in MinAges, gender \in GenderFilters :
       Search(icd_code, min_age, gender)

SpecSearch == Init /\ [][NextSearch]_vars

\* Register, delete and statistics.
NextStatistics ==
  \/ \E body \in StatisticsBodies : Register(body)
  \/ \E body \in BagToSet(pendingPatients) : InsertPatient(body)
  \/ \E row \in BagToSet(pendingIcdCodes) : InsertIcdCode(row)
  \/ \E protocolNumber \in ProtocolNumbers : Delete(protocolNumber)
  \/ Statistics
  \/ StatisticsTotal
  \/ StatisticsByGender
  \/ StatisticsAgeGroups

SpecStatistics == Init /\ [][NextStatistics]_vars

\* ------------------------------------------------------------------ claims

\* The codes a request submits: the code of every entry that has one.
SubmittedCodes(body) ==
  LET items == body.icd_codes.items
      coded == SelectSeq(items, LAMBDA icd : icd.code # Undefined)
  IN  SeqToBag([i \in DOMAIN coded |-> coded[i].code])

\* A record of a response shows the patient a request registered as id.
ShowsPatient(record, id, body) ==
  /\ record.id = id
  /\ record.protocol_number = body.protocol_number
  /\ record.name = body.name
  /\ record.gender = body.gender
  /\ record.date_of_birth = body.date_of_birth
  /\ record.admission_date = body.admission_date
  /\ record.discharge_date = body.discharge_date
  /\ SeqToBag(record.icd_codes) = SubmittedCodes(body)

\* C1: a list response sent after the success response of a registration (and
\* before the patient is deleted) holds a patient with the returned id, the
\* submitted fields and, as a multiset, exactly the submitted ICD codes.
C1_ListShowsRegistered ==
  resp.op = "list" =>
    \A id \in DOMAIN submitted :
      \E k \in DOMAIN resp.body : ShowsPatient(resp.body[k], id, submitted[id])

\* No request is being served: no statement is queued.
Quiescent ==
  /\ pendingPatients = EmptyBag
  /\ pendingIcdCodes = EmptyBag
  /\ stats.pc = "idle"

\* C2: with no operation in flight, every ICD code row belongs to a patient
\* that is in the patients table.
C2_NoOrphans ==
  Quiescent =>
    \A row \in BagToSet(patient_icd_codes) :
      \E p \in patients : p.id = row.patient_id

\* C5: a patient whose registration was answered with success, and who has
\* not been deleted, has at least one ICD code row.
C5_AtLeastOneIcdCode ==
  \A id \in DOMAIN submitted :
    \E row \in BagToSet(patient_icd_codes) : row.patient_id = id

\* C9: a list response holds every patient, a patient registered later
\* (one with a larger id) before one registered earlier.
C9_MostRecentFirst ==
  resp.op = "list" =>
    \A i, j \in DOMAIN resp.body : i < j => resp.body[i].id > resp.body[j].id

\* A request body has every required scalar field.
HasRequiredFields(body) ==
  /\ body.protocol_number # ""
  /\ body.name # ""
  /\ body.gender # ""
  /\ body.date_of_birth # NoDate
  /\ body.admission_date # NoDate

\* A code is missing, empty or made of white space only.
IsBlank(code) == code = Undefined \/ \A k \in DOMAIN code : code[k] = " "

\* icd_codes is missing, not a list, empty, or has no entry with a code.
HasNoIcdCode(body) ==
  \/ body.icd_codes.kind # "array"
  \/ \A i \in DOMAIN body.icd_codes.items : IsBlank(body.icd_codes.items[i].code)

\* A step in which the registration with this body is answered: by the
\* handler itself, which then queues no statement, or by the insert's callback.
Answered(body) ==
  \/ Register(body) /\ pendingPatients' = pendingPatients
  \/ InsertPatient(body)

\* A patient row holds the protocol number of the request.
ProtocolTaken(body) ==
  \E p \in patients : p.protocol_number = body.protocol_number

UniqueProtocolNumbers ==
  \A p, q \in patients : p.protocol_number = q.protocol_number => p = q

\* C3, as stated: a registration whose protocol number is that of a patient
\* in the store is answered with the conflict error whatever its other
\* fields are, changes neither table, and no two patients ever share a
\* protocol number.
C3_AlwaysConflict ==
  [][/\ \A body \in Bodies :
          Answered(body) /\ ProtocolTaken(body) =>
            /\ resp' = Response("register", 400, ProtocolExists)
            /\ UNCHANGED << patients, patient_icd_codes >>
     /\ UniqueProtocolNumbers']_vars

\* C3, amended: such a registration is answered with the conflict error when
\* it passes validation and with the validation error when it does not; in
\* both cases neither table changes, and no two patients ever share a
\* protocol number.
C3_ConflictAfterValidation ==
  [][/\ \A body \in Bodies :
          Answered(body) /\ ProtocolTaken(body) =>
            /\ resp' = Response("register", 400,
                          IF ~HasRequiredFields(body) THEN MissingFields
                          ELSE IF HasNoIcdCode(body) THEN MissingIcd
                          ELSE ProtocolExists)
            /\ UNCHANGED << patients, patient_icd_codes >>
     /\ UniqueProtocolNumbers']_vars

\* A registration was answered with the conflict error, and one more request
\* for a protocol number that is taken is queued.
C3_Witness ==
  /\ resp = Response("register", 400, ProtocolExists)
  /\ \E body \in BagToSet(pendingPatients) : ProtocolTaken(body)

\* C4: a registration without an ICD code is answered with the validation
\* error and issues no statement: nothing is queued, no table changes.
C4_NoIcdCodeNeverReachesStore ==
  [][\A body \in Bodies :
       Register(body) /\ HasNoIcdCode(body) =>
         /\ resp' = Response("register", 400,
                       IF HasRequiredFields(body) THEN MissingIcd ELSE MissingFields)
         /\ UNCHANGED << patients, patient_icd_codes, sqlite_sequence,
                         pendingPatients, pendingIcdCodes >>]_vars

\* A registration without an ICD code was refused while the store held a patient.
C4_Witness ==
  /\ resp = Response("register", 400, MissingIcd)
  /\ patients # {}

\* C7: a delete whose protocol number matches no patient row is answered
\* with not-found and changes neither table.
C7_DeleteMissingChangesNothing ==
  [][\A protocolNumber \in ProtocolNumbers :
       /\ Delete(protocolNumber)
       /\ ~\E p \in patients : p.protocol_number = protocolNumber
       => /\ resp' = Response("delete", 404, PatientNotFound)
          /\ UNCHANGED << patients, patient_icd_codes >>]_vars

\* A delete was answered with not-found while the store held a patient and
\* ICD code rows.
C7_Witness ==
  /\ resp = Response("delete", 404, PatientNotFound)
  /\ patients # {}
  /\ patient_icd_codes # EmptyBag

\* C6: in the statistics response the byGender counts sum to total, the
\* three ageGroups counts sum to total, and total is the number of patients
\* a list request answered at that moment returns.
C6_StatisticsAddUp ==
  [][StatisticsAgeGroups =>
       LET body == resp'.body
           groups == body.ageGroups
       IN  /\ Sum([row \in body.byGender |-> row.count], body.byGender) = body.total
           /\ groups["0-18"] + groups["19-64"] + groups["65+"] = body.total
           /\ \A list \in ListResults : Len(list) = body.total]_vars

\* The ICD code rows of a patient.
IcdRowsOf(p) == {row \in BagToSet(patient_icd_codes) : row.patient_id = p.id}

\* A text contains another as a substring.
Contains(text, sub) ==
  \E k \in 0..(Len(text) - Len(sub)) : SubSeq(text, k + 1, k + Len(sub)) = sub

\* The threshold a min_age parameter names.
Threshold(min_age) ==
  CASE min_age = << "0" >> -> 0
    [] min_age = << "6", "5" >> -> 65

\* Two characters are the same, or the same letter in either ASCII case.
SameIgnoringCase(a, b) ==
  a = b \/ \E i \in DOMAIN LowerCase : {a, b} = {LowerCase[i], UpperCase[i]}

\* A code matches the filter the way LIKE '%filter%' matches: the filter's
\* characters other than '%' lie in the code in their order, neighbours in
\* the filter being neighbours in the code, a letter matching in either
\* case and '_' matching any character.
MatchesLike(code, filter) ==
  LET places == {k \in DOMAIN filter : filter[k] # "%"}
  IN  \E at \in [places -> DOMAIN code] :
        /\ \A k \in places :
             filter[k] = "_" \/ SameIgnoringCase(filter[k], code[at[k]])
        /\ \A k, l \in places : k < l => at[k] < at[l]
        /\ \A k \in places : k + 1 \in places => at[k + 1] = at[k] + 1

\* A patient satisfies every filter supplied (a parameter that is not
\* empty); the ICD filter is matched as a substring, or as LIKE matches.
Satisfies(p, icd_code, min_age, gender, like) ==
  /\ icd_code # << >> =>
       \E row \in IcdRowsOf(p) :
         IF like THEN MatchesLike(row.icd_code, icd_code)
         ELSE Contains(row.icd_code, icd_code)
  /\ gender # "" => p.gender = gender
  /\ min_age # << >> => calculateAge(p.date_of_birth) >= Threshold(min_age)

\* Whatever the query, every response the search handler can send in the
\* current state holds exactly the patients that satisfy the filters.
ReturnsExactly(like) ==
  \A icd_code \in IcdFilters, min_age \in MinAges, gender \in GenderFilters :
    \A body \in SearchResponses(icd_code, min_age, gender) :
      LET found == body.patients
      IN  /\ {found[i].id : i \in DOMAIN found} =
               {p.id : p \in {q \in patients :
                                Satisfies(q, icd_code, min_age, gender, like)}}
          /\ \A i, j \in DOMAIN found : found[i].id = found[j].id => i = j
          /\ body.count = Len(found)
          /\ min_age = << "6", "5" >> => \A i \in DOMAIN found : found[i].age >= 65

\* C8, as stated: search returns exactly the patients of which some ICD code
\* contains the icd_code substring, whose gender is the gender filter and
\* whose computed age is at least min_age (0 included), and count is their
\* number.
C8_SearchReturnsMatches == ReturnsExactly(FALSE)

\* C8, amended: the ICD filter is matched as LIKE '%filter%' matches.
C8_SearchReturnsLikeMatches == ReturnsExactly(TRUE)

\* The store holds a man of 65 and a man of -1 with the same two codes each,
\* and the last search returned the man of 65 alone: the age filter decided.
C8_Witness ==
  /\ resp.op = "search"
  /\ resp.body.count = 1
  /\ resp.body.patients[1].age = 65
  /\ Cardinality(patients) = 2
  /\ \A p \in patients :
       /\ p.gender = "male"
       /\ JoinedCodes(p.id) = SeqToBag(<< J18, J18 >>)

\* Two records of responses show the same patient in the same way.
SameRecord(a, b) ==
  /\ a.id = b.id
  /\ a.protocol_number = b.protocol_number
  /\ a.name = b.name
  /\ a.gender = b.gender
  /\ a.date_of_birth = b.date_of_birth
  /\ a.admission_date = b.admission_date
  /\ a.discharge_date = b.discharge_date
  /\ a.created_at = b.created_at
  /\ a.age = b.age
  /\ a.length_of_stay = b.length_of_stay
  /\ SeqToBag(a.icd_codes) = SeqToBag(b.icd_codes)

\* C10: whatever the query, every patient record of a search response is the
\* record a list response sent in the same state holds for the patient, its
\* icd_codes holding the same codes the same number of times.
C10_SearchRecordsAsList ==
  \A icd_code \in IcdFilters, min_age \in MinAges, gender \in GenderFilters :
    \A body \in SearchResponses(icd_code, min_age, gender) :
      \A i \in DOMAIN body.patients :
        \E list \in ListResults :
          \E k \in DOMAIN list : SameRecord(list[k], body.patients[i])

====
